---- MODULE Spec2Model ----
(***************************************************************************)
(* Licence-plate extraction of FormHandler (src/unnamed/part_006):         *)
(* extractTextFromImage asks the Plate Recognizer service first when an    *)
(* API key is configured and otherwise, or when that yields nothing, runs  *)
(* Tesseract once per page-segmentation mode, collects the cleaned word    *)
(* and full-text tokens of every pass and returns the best-scoring one.    *)
(*                                                                         *)
(* A text is a sequence of one-character strings, so that stripping and    *)
(* upper-casing are computed character by character.  Scores are kept in   *)
(* tenths (Score is ten times the JavaScript number) so that               *)
(* (confidence / 100) * 30 stays an integer for integer confidences.       *)
(***************************************************************************)
EXTENDS Integers, Sequences, FiniteSets, TLC

\* ------------------------------------------------------------------ bounds
\* Longest word list one Tesseract pass returns.
MaxWords == 1
\* Longest guess list (result.results) the Plate Recognizer service returns.
MaxGuesses == 2
\* Longest text drawn when the score is applied alone.
MaxTextLen == 10
\* Longest raw text drawn when the cleaning is applied alone.
MaxRawLen == 3
\* Most candidates drawn when the ranking loop is applied alone.
MaxCands == 3
\* Most words of the pass drawn when the collection is applied alone.
MaxPassWords == 2
\* Most change events of the plateImage input.
MaxUploads == 2
\* Most calls of setApiKey.
MaxSets == 2

\* ------------------------------------------------------------- characters
\* The lower-case ASCII letters, each with its upper-case form.
UpperCaseOf ==
    "a" :> "A" @@ "b" :> "B" @@ "c" :> "C" @@ "d" :> "D" @@ "e" :> "E"
    @@ "f" :> "F" @@ "g" :> "G" @@ "h" :> "H" @@ "i" :> "I" @@ "j" :> "J"
    @@ "k" :> "K" @@ "l" :> "L" @@ "m" :> "M" @@ "n" :> "N" @@ "o" :> "O"
    @@ "p" :> "P" @@ "q" :> "Q" @@ "r" :> "R" @@ "s" :> "S" @@ "t" :> "T"
    @@ "u" :> "U" @@ "v" :> "V" @@ "w" :> "W" @@ "x" :> "X" @@ "y" :> "Y"
    @@ "z" :> "Z"

LowerCase == DOMAIN UpperCaseOf
UpperCase == { UpperCaseOf[c] : c \in LowerCase }
Numbers == {"0","1","2","3","4","5","6","7","8","9"}

\* The character class [a-zA-Z0-9] of the two replace() calls.
IsAlphaNumeric(c) == c \in LowerCase \/ c \in UpperCase \/ c \in Numbers

\* String.prototype.toUpperCase, one character at a time.
ToUpperCaseChar(c) == IF c \in LowerCase THEN UpperCaseOf[c] ELSE c

ToUpperCase(s) == [i \in 1..Len(s) |-> ToUpperCaseChar(s[i])]

\* Variant: the pattern without its g flag, only the first match is removed.
StripFirstNonAlphaNumeric(s) ==
    IF \A i \in 1..Len(s) : IsAlphaNumeric(s[i]) THEN s
    ELSE LET k == CHOOSE k \in 1..Len(s) :
                    /\ ~IsAlphaNumeric(s[k])
                    /\ \A j \in 1..(k - 1) : IsAlphaNumeric(s[j])
         IN  SubSeq(s, 1, k - 1) \o SubSeq(s, k + 1, Len(s))

\* text.replace(/[^a-zA-Z0-9]/g, "")
StripNonAlphaNumeric(s) == SelectSeq(s, IsAlphaNumeric)

\* cleaned / fullCleaned: .replace(/[^a-zA-Z0-9]/g, "").toUpperCase()
Cleaned(s) == ToUpperCase(StripNonAlphaNumeric(s))

\* ------------------------------------------------------- noise vocabulary
filterWords ==
    { <<"O","F">>,
      <<"T","H","E">>,
      <<"S","T","A","T","E">>,
      <<"U","S","A">>,
      <<"G","O","V">>,
      <<"G","O","V","T">>,
      <<"C","A","L","I","F","O","R","N","I","A">>,
      <<"T","E","X","A","S">>,
      <<"F","L","O","R","I","D","A">>,
      <<"N","E","W","Y","O","R","K">>,
      <<"I","L","L","I","N","O","I","S">>,
      <<"R","E","G","I","S","T","R","A","T","I","O","N">>,
      <<"E","X","P","I","R","E","S">>,
      <<"L","I","C","E","N","S","E">>,
      <<"P","L","A","T","E">> }

\* ------------------------------------------------------------------ score
\* /[A-Z]/.test(text) and /[0-9]/.test(text)
hasLetters(text) == \E i \in 1..Len(text) : text[i] \in UpperCase
hasNumbers(text) == \E i \in 1..Len(text) : text[i] \in Numbers

\* Variant: the confidence is left out of the score.
ConfidenceScoreLeftOut(confidence) == 0

\* score += (candidate.confidence / 100) * 30, in tenths
ConfidenceScore(confidence) == 3 * confidence

LengthScore(text) ==
    IF Len(text) >= 5 /\ Len(text) <= 7 THEN 300
    ELSE IF Len(text) >= 4 /\ Len(text) <= 8 THEN 200
    ELSE IF Len(text) >= 3 /\ Len(text) <= 9 THEN 100
    ELSE 0

\* Variant: any text with a letter or a digit earns the same 15.
MixScoreFlat(text) ==
    IF hasLetters(text) \/ hasNumbers(text) THEN 150 ELSE 0

MixScore(text) ==
    IF hasLetters(text) /\ hasNumbers(text) THEN 400
    ELSE IF hasLetters(text) \/ hasNumbers(text) THEN 150
    ELSE 0

\* Variant: the penalty already applies to 4 letters.
WordPenaltyFromFour(text) ==
    IF hasLetters(text) /\ ~hasNumbers(text) /\ Len(text) >= 4 THEN 200 ELSE 0

WordPenalty(text) ==
    IF hasLetters(text) /\ ~hasNumbers(text) /\ Len(text) > 4 THEN 200 ELSE 0

\* The score of one candidate (lines 488-514), in tenths.
Score(candidate) ==
    ConfidenceScore(candidate.confidence) + LengthScore(candidate.text)
        + MixScore(candidate.text) - WordPenalty(candidate.text)

\* Variant: the stricter floor collapsed into the collection window's floor of 2.
TooShortBelowTwo(text) == Len(text) < 2

\* Variant: the vocabulary is compared with the candidate object, never equal.
FilteredOutNever(text) == FALSE

\* Variant: only the label words are filtered, the state names are kept.
FilteredOutLabelsOnly(text) ==
    text \in { <<"O","F">>, <<"T","H","E">>, <<"S","T","A","T","E">>,
               <<"U","S","A">>, <<"G","O","V">>, <<"G","O","V","T">>,
               <<"E","X","P","I","R","E","S">>, <<"L","I","C","E","N","S","E">>,
               <<"P","L","A","T","E">> }

\* Variant: a text made of two noise words is filtered as well.
FilteredOutConcatenated(text) ==
    \/ text \in filterWords
    \/ \E k \in 1..(Len(text) - 1) :
          /\ SubSeq(text, 1, k) \in filterWords
          /\ SubSeq(text, k + 1, Len(text)) \in filterWords

\* The two skips of the ranking loop.
TooShort(text) == Len(text) < 3
FilteredOut(text) == text \in filterWords

\* Variant: score >= bestScore, the latest of equal scores wins.
BetterOrEqual(score, bestScore) == score >= bestScore

\* Variant: the comparison is reversed, a lower score replaces the best.
BetterReversed(score, bestScore) == score < bestScore

\* score > bestScore
Better(score, bestScore) == score > bestScore

\* The ranking loop from candidate i on, with the running best and the
\* sequence of candidates whose score was computed (the "Candidate:" log).
RECURSIVE RankFrom(_, _, _, _, _)
RankFrom(cands, i, bestCandidate, bestScore, log) ==
    IF i > Len(cands) THEN
        [bestCandidate |-> bestCandidate, bestScore |-> bestScore, scored |-> log]
    ELSE IF TooShort(cands[i].text) THEN
        RankFrom(cands, i + 1, bestCandidate, bestScore, log)
    ELSE IF FilteredOut(cands[i].text) THEN
        RankFrom(cands, i + 1, bestCandidate, bestScore, log)
    ELSE IF Better(Score(cands[i]), bestScore) THEN
        RankFrom(cands, i + 1, cands[i].text, Score(cands[i]), Append(log, cands[i]))
    ELSE
        RankFrom(cands, i + 1, bestCandidate, bestScore, Append(log, cands[i]))

\* Variant: let bestScore = -Infinity, the first scored candidate is taken.
RankFromMinusInfinity(cands) ==
    IF \E i \in DOMAIN cands : ~TooShort(cands[i].text) /\ ~FilteredOut(cands[i].text)
    THEN LET first == CHOOSE i \in DOMAIN cands :
                         /\ ~TooShort(cands[i].text) /\ ~FilteredOut(cands[i].text)
                         /\ \A j \in 1..(i - 1) :
                               TooShort(cands[j].text) \/ FilteredOut(cands[j].text)
         IN  RankFrom(cands, first + 1, cands[first].text, Score(cands[first]),
                      <<cands[first]>>)
    ELSE RankFrom(cands, 1, <<>>, 0, <<>>)

\* Variant: the running best starts below every score instead of at 0.
RankFromLowest(cands) == RankFrom(cands, 1, <<>>, -100000, <<>>)

\* let bestCandidate = ""; let bestScore = 0; for (const candidate of allCandidates)
Rank(cands) == RankFrom(cands, 1, <<>>, 0, <<>>)

\* ------------------------------------------------------ candidate collection
\* Variant: the last two page-segmentation modes are swapped.
configsSwapped == <<"Auto", "Single Line", "Single Block">>

\* const configs = [...]: the page-segmentation modes, in order.
configs == <<"Auto", "Single Block", "Single Line">>

\* word.confidence || 0: a missing (or zero) confidence counts as 0.
ConfidenceOrZero(word) ==
    IF "confidence" \in DOMAIN word THEN word.confidence ELSE 0

\* Variant: the window has no upper end.
InWindowNoCeiling(text) == Len(text) >= 2

\* cleaned.length >= 2 && cleaned.length <= 10
InWindow(text) == Len(text) >= 2 /\ Len(text) <= 10

\* A source is the config name, followed by "-full" for the full text.
WordCandidate(word, name) ==
    [text |-> Cleaned(word.text), confidence |-> ConfidenceOrZero(word),
     source |-> <<name>>]

\* for (const word of words) { ... allCandidates.push(...) }
WordCandidates(words, name) ==
    SelectSeq([i \in 1..Len(words) |-> WordCandidate(words[i], name)],
              LAMBDA c : InWindow(c.text))

\* Variant: the full transcription is trusted like a certain word.
FullCandidateCertain(text, name) ==
    [text |-> Cleaned(text), confidence |-> 100, source |-> <<name, "-full">>]

\* The full transcription as one more candidate, confidence 50.
FullCandidate(text, name) ==
    [text |-> Cleaned(text), confidence |-> 50, source |-> <<name, "-full">>]

FullCandidates(text, name) ==
    IF InWindow(Cleaned(text)) THEN <<FullCandidate(text, name)>> ELSE <<>>

\* Variant: the candidate list is started afresh by every pass.
PushAfresh(candidates, new) == new

\* allCandidates.push(...) for each kept token of a pass.
Push(candidates, new) == candidates \o new

\* What one pass pushes onto allCandidates: its words, then its full text.
PassCandidates(data, name) ==
    WordCandidates(data.words, name) \o FullCandidates(data.text, name)

\* --------------------------------------------------------- remote service
\* Variant: the remote plate is cleaned like a local token.
ExtractWithPlateRecognizerCleaned(apiKey, response) ==
    IF apiKey = "" THEN [threw |-> TRUE, value |-> <<>>]
    ELSE IF response.kind = "netfail" THEN [threw |-> TRUE, value |-> <<>>]
    ELSE IF response.kind = "notok" THEN [threw |-> TRUE, value |-> <<>>]
    ELSE IF response.kind = "results" /\ Len(response.results) > 0 THEN
        [threw |-> FALSE, value |-> Cleaned(response.results[1].plate)]
    ELSE [threw |-> FALSE, value |-> <<>>]

\* extractWithPlateRecognizer on one answer of the service: the value it
\* resolves to, or threw when it rejects.
ExtractWithPlateRecognizer(apiKey, response) ==
    IF apiKey = "" THEN [threw |-> TRUE, value |-> <<>>]
    ELSE IF response.kind = "netfail" THEN [threw |-> TRUE, value |-> <<>>]
    ELSE IF response.kind = "notok" THEN [threw |-> TRUE, value |-> <<>>]
    ELSE IF response.kind = "results" /\ Len(response.results) > 0 THEN
        [threw |-> FALSE, value |-> ToUpperCase(response.results[1].plate)]
    ELSE [threw |-> FALSE, value |-> <<>>]

\* Variant: whatever the remote call resolves to is returned.
TruthyAlways(plateNumber) == TRUE

\* Variant: the early return is never taken.
TruthyNever(plateNumber) == FALSE

\* if (plateNumber): a non-empty string is truthy.
Truthy(plateNumber) == plateNumber # <<>>

\* ----------------------------------------------------------------- inputs
\* Word tokens Tesseract may report (raw text, confidence 0..100): a plate
\* with a separator (score 97.6), a jurisdiction name, a long all-letter word
\* read with little confidence (score -2), and an all-letter word that scores
\* what the full text "THE STATE" scores (30).
WordTokens ==
    { [text |-> <<"a","b","c","-","1","2","3">>, confidence |-> 92],
      [text |-> <<"C","a","l","i","f","o","r","n","i","a">>, confidence |-> 95],
      [text |-> <<"A","B","C","D","E","F","G","H","I","J">>, confidence |-> 10],
      [text |-> <<"A","B","C","D","E","F","G","H">>, confidence |-> 50] }

\* Full transcriptions Tesseract may report: one of 2 characters once
\* cleaned, one of 8.
FullTexts ==
    { <<"A","1","\n">>,
      <<"T","H","E"," ","S","T","A","T","E">> }

WordLists == UNION { [1..n -> WordTokens] : n \in 0..MaxWords }

\* result.data of one successful Tesseract.recognize.
OcrData == { [text |-> t, words |-> w] : t \in FullTexts, w \in WordLists }

\* Guesses of the remote service (plate as sent, score in percent).
Guesses ==
    { [plate |-> <<"a","b","c","-","1","2","3">>, score |-> 50],
      [plate |-> <<"X","Y","Z","7","8","9">>, score |-> 90],
      [plate |-> <<>>, score |-> 90] }

GuessLists == UNION { [1..n -> Guesses] : n \in 0..MaxGuesses }

\* Answers of the fetch: a network failure, a non-OK response, a body with
\* no results field, a body with a results list.
RemoteResponses ==
    { [kind |-> k, results |-> <<>>] : k \in {"netfail", "notok", "noresults"} }
        \cup { [kind |-> "results", results |-> g] : g \in GuessLists }

\* ------------------------------------------------------------------ state
VARIABLES
    plateRecognizerApiKey,  \* this.plateRecognizerApiKey ("" when not configured)
    pc,                     \* where the call of extractTextFromImage stands
    fetchCalls,             \* number of fetch() calls to the remote service
    remoteKind,             \* kind of the remote answer, "notcalled" before any
    remoteResults,          \* the guesses of the remote answer (see RemoteAnswer)
    ocrCalls,               \* config names Tesseract.recognize was invoked with
    ocrLog,                 \* what each invoked pass answered, in order
    allCandidates,          \* const allCandidates = []
    scored,                 \* candidates whose score was computed
    outcome,                \* "pending", "returned" or "threw"
    result,                 \* the string the call resolved to
    input,                  \* argument of a function applied on its own
    output,                 \* <<its value>> once applied, <<>> before
    apiKeyLoaded,           \* this.apiKeyLoaded
    storedKey,              \* the value at config/apiKey in Firebase, "" if none
    pendingSets,            \* writes of setApiKey not yet acknowledged, in order
    loadPc,                 \* where loadApiKeyFromFirebase stands
    snapshot,               \* <<value>> read by once("value"), <<>> before
    setCalls,               \* the arguments of the setApiKey calls so far, in order
    plateNumberInput,       \* value of the plateNumber field
    message,                \* the message uiManager shows
    uploads                 \* the change events of the plateImage input, in order

vars == <<plateRecognizerApiKey, pc, fetchCalls, remoteKind, remoteResults,
          ocrCalls, ocrLog, allCandidates, scored, outcome, result,
          input, output, apiKeyLoaded, storedKey, pendingSets, loadPc, snapshot,
          setCalls, plateNumberInput, message, uploads>>

\* The variables of the key configuration, this.plateRecognizerApiKey apart.
keyVars == <<apiKeyLoaded, storedKey, pendingSets, loadPc, snapshot, setCalls>>

\* The variables of the image-upload handler of the page.
uploadVars == <<plateNumberInput, message, uploads>>

\* The variables of one call of extractTextFromImage.
callVars == <<plateRecognizerApiKey, pc, fetchCalls, remoteKind, remoteResults,
              ocrCalls, ocrLog, allCandidates, scored, outcome, result>>

\* A FormHandler on which extractTextFromImage has not been called yet.
Idle ==
    /\ plateRecognizerApiKey \in {"", "KEY"}
    /\ pc = "idle"
    /\ fetchCalls = 0
    /\ remoteKind = "notcalled"
    /\ remoteResults = <<>>
    /\ ocrCalls = <<>>
    /\ ocrLog = <<>>
    /\ allCandidates = <<>>
    /\ scored = <<>>
    /\ outcome = "pending"
    /\ result = <<>>

\* What the field holds before any image is selected.
PreviousValue == <<"O","L","D","1">>

\* The key configuration at rest: the initial load is over, the stored key
\* is the key in memory, no write is pending.
KeySettled ==
    /\ apiKeyLoaded = (plateRecognizerApiKey # "")
    /\ storedKey = plateRecognizerApiKey
    /\ pendingSets = <<>>
    /\ loadPc = "done"
    /\ snapshot = <<>>
    /\ setCalls = <<>>

\* The page before any image is selected.
NoUploads ==
    /\ plateNumberInput = PreviousValue
    /\ message = "none"
    /\ uploads = <<>>

Init ==
    /\ Idle
    /\ KeySettled
    /\ NoUploads
    /\ input = <<>>
    /\ output = <<>>

\* ---------------------------------------------------------------- actions
\* Control reaches the configs loop: the first Tesseract.recognize is called.
EnterOcr ==
    /\ pc' = "recognize"
    /\ ocrCalls' = <<configs[1]>>
    /\ UNCHANGED <<ocrLog, allCandidates, scored, outcome, result>>

\* return <string> from extractTextFromImage.
Return(text) ==
    /\ pc' = "done"
    /\ outcome' = "returned"
    /\ result' = text

\* catch (error) { throw new Error("Failed to extract text from image...") }
Throw ==
    /\ pc' = "done"
    /\ outcome' = "threw"
    /\ result' = <<>>

\* Variant: the remote request is sent whether or not a key is configured.
ExtractAlwaysFetches ==
    /\ pc = "idle"
    /\ pc' = "fetch"
    /\ fetchCalls' = fetchCalls + 1
    /\ UNCHANGED <<ocrCalls, ocrLog, allCandidates, scored, outcome, result>>
    /\ UNCHANGED <<plateRecognizerApiKey, remoteKind, remoteResults, input, output, keyVars, uploadVars>>

\* extractTextFromImage(file) is called: with a key the remote request is
\* sent, without one the OCR passes start.
Extract ==
    /\ pc = "idle"
    /\ IF plateRecognizerApiKey # ""
       THEN /\ pc' = "fetch"
            /\ fetchCalls' = fetchCalls + 1
            /\ UNCHANGED <<ocrCalls, ocrLog, allCandidates, scored, outcome, result>>
       ELSE /\ EnterOcr
            /\ UNCHANGED fetchCalls
    /\ UNCHANGED <<plateRecognizerApiKey, remoteKind, remoteResults, input, output, keyVars, uploadVars>>

\* The guesses kept of an answer: all of them when the call returns the
\* remote plate, the first one when the call goes on to the OCR passes.
RemoteAnswer(response, returned) ==
    IF returned THEN response.results
    ELSE SubSeq(response.results, 1, IF Len(response.results) > 0 THEN 1 ELSE 0)

\* Variant: a failure of the remote call is rethrown to the caller.
FetchCompletesEscalates ==
    /\ pc = "fetch"
    /\ \E response \in RemoteResponses :
         LET r == ExtractWithPlateRecognizer(plateRecognizerApiKey, response)
             returned == ~r.threw /\ Truthy(r.value)
         IN  /\ remoteKind' = response.kind
             /\ remoteResults' = RemoteAnswer(response, returned)
             /\ IF r.threw
                THEN /\ Throw
                     /\ UNCHANGED <<ocrCalls, ocrLog, allCandidates, scored>>
                ELSE IF returned
                THEN /\ Return(r.value)
                     /\ UNCHANGED <<ocrCalls, ocrLog, allCandidates, scored>>
                ELSE EnterOcr
    /\ UNCHANGED <<plateRecognizerApiKey, fetchCalls, input, output, keyVars, uploadVars>>

\* Variant: a failed remote call clears the key held in memory.
FetchCompletesDropsKey ==
    /\ pc = "fetch"
    /\ \E response \in RemoteResponses :
         LET r == ExtractWithPlateRecognizer(plateRecognizerApiKey, response)
             returned == ~r.threw /\ Truthy(r.value)
         IN  /\ remoteKind' = response.kind
             /\ remoteResults' = RemoteAnswer(response, returned)
             /\ plateRecognizerApiKey' = IF r.threw THEN "" ELSE plateRecognizerApiKey
             /\ IF returned
                THEN /\ Return(r.value)
                     /\ UNCHANGED <<ocrCalls, ocrLog, allCandidates, scored>>
                ELSE EnterOcr
    /\ UNCHANGED <<fetchCalls, input, output, keyVars, uploadVars>>

\* The remote request completes (resolves or rejects): a truthy plate number
\* is returned, anything else falls back to Tesseract.
FetchCompletes ==
    /\ pc = "fetch"
    /\ \E response \in RemoteResponses :
         LET r == ExtractWithPlateRecognizer(plateRecognizerApiKey, response)
             returned == ~r.threw /\ Truthy(r.value)
         IN  /\ remoteKind' = response.kind
             /\ remoteResults' = RemoteAnswer(response, returned)
             /\ IF returned
                THEN /\ Return(r.value)
                     /\ UNCHANGED <<ocrCalls, ocrLog, allCandidates, scored>>
                ELSE EnterOcr
    /\ UNCHANGED <<plateRecognizerApiKey, fetchCalls, input, output, keyVars, uploadVars>>

\* A Tesseract.recognize resolves: its tokens are collected, then either the
\* next configuration is tried or, after the last one, the candidates are
\* ranked and the best one returned.
RecognizeResolves ==
    /\ pc = "recognize"
    /\ \E data \in OcrData :
         LET name == configs[Len(ocrCalls)]
             cands == Push(allCandidates, PassCandidates(data, name))
         IN  /\ ocrLog' = Append(ocrLog, [threw |-> FALSE, data |-> data])
             /\ allCandidates' = cands
             /\ IF Len(ocrCalls) < Len(configs)
                THEN /\ ocrCalls' = Append(ocrCalls, configs[Len(ocrCalls) + 1])
                     /\ UNCHANGED <<pc, scored, outcome, result>>
                ELSE LET ranked == Rank(cands)
                     IN  /\ scored' = ranked.scored
                         /\ Return(ranked.bestCandidate)
                         /\ UNCHANGED ocrCalls
    /\ UNCHANGED <<plateRecognizerApiKey, fetchCalls, remoteKind, remoteResults,
                   input, output, keyVars, uploadVars>>

\* Variant: a failed pass is skipped and the next configuration is tried.
RecognizeRejectsContinues ==
    /\ pc = "recognize"
    /\ ocrLog' = Append(ocrLog, [threw |-> TRUE])
    /\ IF Len(ocrCalls) < Len(configs)
       THEN /\ ocrCalls' = Append(ocrCalls, configs[Len(ocrCalls) + 1])
            /\ UNCHANGED <<pc, scored, outcome, result>>
       ELSE LET ranked == Rank(allCandidates)
            IN  /\ scored' = ranked.scored
                /\ Return(ranked.bestCandidate)
                /\ UNCHANGED ocrCalls
    /\ UNCHANGED <<plateRecognizerApiKey, fetchCalls, remoteKind, remoteResults,
                   allCandidates, input, output, keyVars, uploadVars>>

\* Variant: the catch swallows the error and resolves to the empty string.
RecognizeRejectsSwallowed ==
    /\ pc = "recognize"
    /\ ocrLog' = Append(ocrLog, [threw |-> TRUE])
    /\ Return(<<>>)
    /\ UNCHANGED <<plateRecognizerApiKey, fetchCalls, remoteKind, remoteResults,
                   ocrCalls, allCandidates, scored, input, output, keyVars, uploadVars>>

\* Variant: the first failed pass is tried again with the same configuration.
RecognizeRejectsRetries ==
    /\ pc = "recognize"
    /\ ocrLog' = Append(ocrLog, [threw |-> TRUE])
    /\ IF \A i \in DOMAIN ocrLog : ~ocrLog[i].threw
       THEN /\ ocrCalls' = Append(ocrCalls, ocrCalls[Len(ocrCalls)])
            /\ UNCHANGED <<pc, outcome, result>>
       ELSE /\ Throw
            /\ UNCHANGED ocrCalls
    /\ UNCHANGED <<plateRecognizerApiKey, fetchCalls, remoteKind, remoteResults,
                   allCandidates, scored, input, output, keyVars, uploadVars>>

\* Variant: after a failed pass the configs loop starts over.
RecognizeRejectsStartsOver ==
    /\ pc = "recognize"
    /\ ocrCalls' = <<configs[1]>>
    /\ ocrLog' = <<>>
    /\ allCandidates' = <<>>
    /\ IF Len(ocrCalls) > 1 THEN UNCHANGED <<pc, outcome, result>> ELSE Throw
    /\ UNCHANGED <<plateRecognizerApiKey, fetchCalls, remoteKind, remoteResults,
                   scored, input, output, keyVars, uploadVars>>

\* A Tesseract.recognize rejects: the error reaches the catch of
\* extractTextFromImage, which throws the "Failed to extract" error.
RecognizeRejects ==
    /\ pc = "recognize"
    /\ ocrLog' = Append(ocrLog, [threw |-> TRUE])
    /\ Throw
    /\ UNCHANGED <<plateRecognizerApiKey, fetchCalls, remoteKind, remoteResults,
                   ocrCalls, allCandidates, scored, input, output, keyVars, uploadVars>>

Next ==
    \/ Extract
    \/ FetchCompletes
    \/ RecognizeResolves
    \/ RecognizeRejects

Spec == Init /\ [][Next]_vars

\* The call when every awaited collaborator settles: a pending fetch and a
\* pending Tesseract.recognize eventually resolve or reject, and the event
\* loop then runs the continuation.
\* The passes answered so far reported at most one word each: the answers
\* on which the end of the call is checked.
AnswersOfOneWord ==
    \A p \in DOMAIN ocrLog : ~ocrLog[p].threw => Len(ocrLog[p].data.words) <= 1

RecognizeResolvesOneWord == RecognizeResolves /\ AnswersOfOneWord'

NextLive ==
    \/ Extract
    \/ FetchCompletes
    \/ RecognizeResolvesOneWord
    \/ RecognizeRejects

Fairness ==
    /\ WF_vars(FetchCompletes)
    /\ WF_vars(RecognizeResolvesOneWord \/ RecognizeRejects)

SpecLive == Init /\ [][NextLive]_vars /\ Fairness

\* The call with no API key configured: the else branch of line 372 and the
\* OCR passes alone.
InitOcr == Init /\ plateRecognizerApiKey = ""

NextOcr ==
    \/ Extract
    \/ RecognizeResolves
    \/ RecognizeRejects

SpecOcr == InitOcr /\ [][NextOcr]_vars

\* ------------------------------------------------ the score, applied alone
\* Texts the ranking loop can score: cleaned, inside the collection window,
\* of 3 characters or more. "A" stands for a letter, "1" for a digit.
ScoreTexts ==
    { t \in UNION { [1..n -> {"A", "1"}] : n \in 0..MaxTextLen } :
        InWindow(t) /\ ~TooShort(t) }

\* Confidences in percent, among them the 50 of a full text and the missing
\* confidence counted as 0.
ScoreConfidences == {0, 16, 17, 50, 60, 80, 92, 100}

ScoreInputs ==
    { [text |-> t, confidence |-> c] : t \in ScoreTexts, c \in ScoreConfidences }

InitScore ==
    /\ Idle
    /\ KeySettled
    /\ NoUploads
    /\ plateRecognizerApiKey = ""
    /\ input \in ScoreInputs
    /\ output = <<>>

\* One iteration of the ranking loop computes the score of its candidate.
ScoreCandidate ==
    /\ output = <<>>
    /\ output' = <<Score(input)>>
    /\ UNCHANGED <<input, callVars, keyVars, uploadVars>>

NextScore == ScoreCandidate

SpecScore == InitScore /\ [][NextScore]_vars

\* ---------------------------------------------- the cleaning, applied alone
\* Characters of a raw token: letters of both cases, a digit, punctuation,
\* white space and a letter outside ASCII.
RawChars == {"a", "Z", "7", "-", " ", "é"}

RawTexts == UNION { [1..n -> RawChars] : n \in 0..MaxRawLen }

InitClean ==
    /\ Idle
    /\ KeySettled
    /\ NoUploads
    /\ plateRecognizerApiKey = ""
    /\ input \in RawTexts
    /\ output = <<>>

\* const cleaned = word.text.replace(...).toUpperCase()
CleanWord ==
    /\ output = <<>>
    /\ output' = <<[of |-> "word",
                    text |-> WordCandidate([text |-> input, confidence |-> 0],
                                           configs[1]).text]>>
    /\ UNCHANGED <<input, callVars, keyVars, uploadVars>>

\* const fullCleaned = result.data.text.replace(...).toUpperCase()
CleanFull ==
    /\ output = <<>>
    /\ output' = <<[of |-> "full", text |-> FullCandidate(input, configs[1]).text]>>
    /\ UNCHANGED <<input, callVars, keyVars, uploadVars>>

NextClean ==
    \/ CleanWord
    \/ CleanFull

SpecClean == InitClean /\ [][NextClean]_vars

\* ------------------------------------ collection and ranking of one answer
\* Words of a pass at the edges of the collection: two noise words, a word
\* with no confidence, a word of confidence 0, a word of 11 characters and
\* a word of 1 character.
CollectWords ==
    { [text |-> <<"T","H","E">>, confidence |-> 96],
      [text |-> <<"S","T","A","T","E">>, confidence |-> 91],
      [text |-> <<"a","b","-","1","2">>],
      [text |-> <<"Q","7">>, confidence |-> 0],
      [text |-> <<"A","B","C","D","E","1","2","3","4","5","6">>, confidence |-> 99],
      [text |-> <<"x">>, confidence |-> 90] }

\* Full transcriptions of 0, 2, 8 and 11 characters once cleaned.
CollectTexts ==
    { <<>>,
      <<"A","1","\n">>,
      <<"T","H","E"," ","S","T","A","T","E">>,
      <<"A","B","C","D","E"," ","1","2","3","4","5","6">> }

CollectData ==
    { [text |-> t, words |-> w] :
        t \in CollectTexts,
        w \in UNION { [1..n -> CollectWords] : n \in 0..MaxPassWords } }

\* The answer of a pass that recognises nothing.
EmptyData == [text |-> <<>>, words |-> <<>>]

InitCollect ==
    /\ Idle
    /\ KeySettled
    /\ NoUploads
    /\ plateRecognizerApiKey = ""
    /\ input \in CollectData
    /\ output = <<>>

\* The configs loop and the ranking loop when the first pass answers input
\* and the other two recognise nothing.
CollectAndRank ==
    /\ output = <<>>
    /\ LET first == Push(<<>>, PassCandidates(input, configs[1]))
           second == Push(first, PassCandidates(EmptyData, configs[2]))
           third == Push(second, PassCandidates(EmptyData, configs[3]))
           ranked == Rank(third)
       IN  output' = <<[candidates |-> third, scored |-> ranked.scored,
                        result |-> ranked.bestCandidate]>>
    /\ UNCHANGED <<input, callVars, keyVars, uploadVars>>

NextCollect == CollectAndRank

SpecCollect == InitCollect /\ [][NextCollect]_vars

\* ------------------------------------------------------- the key held in memory
\* Keys the configuration panel passes to setApiKey: a new key, or "" to
\* clear it.
SetKeys == {"", "NEW"}

\* After construction: no key in memory, the load scheduled by setTimeout,
\* and Firebase holding no key or the key saved earlier.
InitKey ==
    /\ Idle
    /\ plateRecognizerApiKey = ""
    /\ apiKeyLoaded = FALSE
    /\ storedKey \in {"", "OLD"}
    /\ pendingSets = <<>>
    /\ loadPc = "scheduled"
    /\ snapshot = <<>>
    /\ setCalls = <<>>
    /\ NoUploads
    /\ input = <<>>
    /\ output = <<>>

\* What extractTextFromImage, the pure functions and the page hold, none of
\* which the key configuration writes.
notKeyVars == <<pc, fetchCalls, remoteKind, remoteResults, ocrCalls, ocrLog,
                allCandidates, scored, outcome, result, input, output, uploadVars>>

\* The timer fires: loadApiKeyFromFirebase returns at once when the key was
\* loaded, else it awaits apiKeyRef.once("value").
LoadStarts ==
    /\ loadPc = "scheduled"
    /\ loadPc' = IF apiKeyLoaded THEN "done" ELSE "reading"
    /\ UNCHANGED <<plateRecognizerApiKey, apiKeyLoaded, storedKey, pendingSets,
                   snapshot, setCalls, notKeyVars>>

\* The value of the snapshot is fixed: the stored key, or a key whose write
\* is still pending in the client.
SnapshotTaken ==
    /\ loadPc = "reading"
    /\ \E v \in {storedKey} \cup { pendingSets[i] : i \in DOMAIN pendingSets } :
         snapshot' = <<v>>
    /\ loadPc' = "read"
    /\ UNCHANGED <<plateRecognizerApiKey, apiKeyLoaded, storedKey, pendingSets,
                   setCalls, notKeyVars>>

\* once("value") rejects (PERMISSION_DENIED or another error): the catch
\* leaves the key alone.
LoadRejects ==
    /\ loadPc = "reading"
    /\ loadPc' = "done"
    /\ UNCHANGED <<plateRecognizerApiKey, apiKeyLoaded, storedKey, pendingSets,
                   snapshot, setCalls, notKeyVars>>

\* once("value") resolves: if (snapshot.exists()) the key in memory becomes
\* snapshot.val() and apiKeyLoaded becomes true.
LoadResolves ==
    /\ loadPc = "read"
    /\ loadPc' = "done"
    /\ IF snapshot[1] # ""
       THEN /\ plateRecognizerApiKey' = snapshot[1]
            /\ apiKeyLoaded' = TRUE
       ELSE UNCHANGED <<plateRecognizerApiKey, apiKeyLoaded>>
    /\ UNCHANGED <<storedKey, pendingSets, snapshot, setCalls, notKeyVars>>

\* setApiKey(apiKey): the key in memory is assigned, then the write (set or
\* remove) is awaited.
SetApiKey ==
    /\ Len(setCalls) < MaxSets
    /\ \E apiKey \in SetKeys :
         /\ plateRecognizerApiKey' = apiKey
         /\ pendingSets' = Append(pendingSets, apiKey)
         /\ setCalls' = Append(setCalls, apiKey)
    /\ UNCHANGED <<apiKeyLoaded, storedKey, loadPc, snapshot, notKeyVars>>

\* The oldest pending write is acknowledged: Firebase holds the key, or none
\* after remove().
SetAcknowledged ==
    /\ pendingSets # <<>>
    /\ storedKey' = Head(pendingSets)
    /\ pendingSets' = Tail(pendingSets)
    /\ UNCHANGED <<plateRecognizerApiKey, apiKeyLoaded, loadPc, snapshot, setCalls,
                   notKeyVars>>

\* The oldest pending write fails: setApiKey logs and rethrows, the key in
\* memory stays assigned.
SetFails ==
    /\ pendingSets # <<>>
    /\ pendingSets' = Tail(pendingSets)
    /\ UNCHANGED <<plateRecognizerApiKey, apiKeyLoaded, storedKey, loadPc, snapshot,
                   setCalls, notKeyVars>>

NextKey ==
    \/ LoadStarts
    \/ SnapshotTaken
    \/ LoadRejects
    \/ LoadResolves
    \/ SetApiKey
    \/ SetAcknowledged
    \/ SetFails

SpecKey == InitKey /\ [][NextKey]_vars

\* -------------------------------------------------- the image-upload handler
\* Files the user may select.
Images == {"front.jpg", "rear.jpg"}

\* The plate each image shows.
PlateOn ==
    [file \in Images |->
        IF file = "front.jpg" THEN <<"A","B","C","1","2","3">>
        ELSE <<"X","Y","Z","7","8","9">>]

\* The ways a call of extractTextFromImage(file) ends for the handler: the
\* plate of the image, the empty string, or the "Failed to extract" error.
ExtractionOutcomes(file) ==
    { [outcome |-> "returned", result |-> PlateOn[file]],
      [outcome |-> "returned", result |-> <<>>],
      [outcome |-> "threw", result |-> <<>>] }

InitUploads ==
    /\ Idle
    /\ KeySettled
    /\ NoUploads
    /\ plateRecognizerApiKey = ""
    /\ input = <<>>
    /\ output = <<>>

\* A change event with a file: handleImageUpload shows the processing
\* message and awaits extractTextFromImage(file).
ImageSelected ==
    /\ Len(uploads) < MaxUploads
    /\ \E file \in Images :
         uploads' = Append(uploads, [file |-> file, pc |-> "extracting",
                                     outcome |-> "pending", result |-> <<>>])
    /\ message' = "processing"
    /\ UNCHANGED <<plateNumberInput, input, output, callVars, keyVars>>

\* A change event with no file: handleImageUpload returns at once.
NoImageSelected ==
    /\ Len(uploads) < MaxUploads
    /\ uploads' = Append(uploads, [file |-> "", pc |-> "done",
                                   outcome |-> "nofile", result |-> <<>>])
    /\ UNCHANGED <<plateNumberInput, message, input, output, callVars, keyVars>>

\* Variant: whatever string the extraction returns is written to the field.
ExtractionEndsWritesAlways ==
    \E i \in DOMAIN uploads :
        /\ uploads[i].pc = "extracting"
        /\ \E o \in ExtractionOutcomes(uploads[i].file) :
             /\ uploads' = [uploads EXCEPT ![i] =
                               [@ EXCEPT !.pc = "done", !.outcome = o.outcome,
                                         !.result = o.result]]
             /\ IF o.outcome = "returned"
                THEN /\ plateNumberInput' = o.result
                     /\ message' = "detected"
                ELSE /\ message' = "failed"
                     /\ UNCHANGED plateNumberInput
        /\ UNCHANGED <<input, output, callVars, keyVars>>

\* The awaited extraction of one pending handler ends: a non-empty text is
\* written to the field, the empty string and an error only change the
\* message.
ExtractionEnds ==
    \E i \in DOMAIN uploads :
        /\ uploads[i].pc = "extracting"
        /\ \E o \in ExtractionOutcomes(uploads[i].file) :
             /\ uploads' = [uploads EXCEPT ![i] =
                               [@ EXCEPT !.pc = "done", !.outcome = o.outcome,
                                         !.result = o.result]]
             /\ IF o.outcome = "returned" /\ Len(o.result) > 0
                THEN /\ plateNumberInput' = o.result
                     /\ message' = "detected"
                ELSE IF o.outcome = "returned"
                THEN /\ message' = "could not extract"
                     /\ UNCHANGED plateNumberInput
                ELSE /\ message' = "failed"
                     /\ UNCHANGED plateNumberInput
        /\ UNCHANGED <<input, output, callVars, keyVars>>

NextUploads ==
    \/ ImageSelected
    \/ NoImageSelected
    \/ ExtractionEnds

SpecUploads == InitUploads /\ [][NextUploads]_vars

\* ----------------------------------------- the ranking loop, applied alone
\* Words as Tesseract reports them with its upper-case whitelist: two plates
\* of 7 characters, two words of 10 letters, a plate of 6, a state name and
\* a word of 2 letters.
RankTokens ==
    { [text |-> <<"X","Y","1","2","3","4","5">>, confidence |-> 80],
      [text |-> <<"X","Y","1","Z","3","4","5">>, confidence |-> 60],
      [text |-> <<"A","B","C","D","E","F","G","H","I","J">>, confidence |-> 10],
      [text |-> <<"K","L","M","N","O","P","Q","R","S","T">>, confidence |-> 5],
      [text |-> <<"A","B","C","1","2","3">>, confidence |-> 92],
      [text |-> <<"C","A","L","I","F","O","R","N","I","A">>, confidence |-> 95],
      [text |-> <<"O","F">>, confidence |-> 99] }

\* The candidates the first and the last pass push for these words.
RankCandidates ==
    { c \in { WordCandidate(w, n) :
                w \in RankTokens, n \in {configs[1], configs[Len(configs)]} } :
        InWindow(c.text) }

\* allCandidates after the configs loop: candidates in pass order.
RankInputs ==
    { l \in UNION { [1..n -> RankCandidates] : n \in 0..MaxCands } :
        \A i \in 1..Len(l) : \A j \in i..Len(l) :
            l[i].source[1] = configs[Len(configs)] => l[j].source = l[i].source }

InitRank ==
    /\ Idle
    /\ KeySettled
    /\ NoUploads
    /\ plateRecognizerApiKey = ""
    /\ input \in RankInputs
    /\ output = <<>>

\* The ranking loop runs over allCandidates.
RankCandidateList ==
    /\ output = <<>>
    /\ output' = <<Rank(input)>>
    /\ UNCHANGED <<input, callVars, keyVars, uploadVars>>

NextRank == RankCandidateList

SpecRank == InitRank /\ [][NextRank]_vars

\* ----------------------------------------------------- terms of the claims
Done == pc = "done"
Returned == Done /\ outcome = "returned"
Threw == Done /\ outcome = "threw"

\* The remote service answered with at least one guess.
RemoteGuessed == remoteKind = "results" /\ Len(remoteResults) > 0

\* The remote call failed: the request itself, or a non-OK response.
RemoteFailed == remoteKind \in {"netfail", "notok"}

\* The remote service answered with no guess at all.
RemoteNoGuess == remoteKind \in {"noresults", "results"} /\ Len(remoteResults) = 0

\* The call went through the OCR passes and came back with a string.
OcrReturned == Returned /\ ocrCalls # <<>>

\* Some invoked pass failed.
SomePassThrew == \E p \in 1..Len(ocrLog) : ocrLog[p].threw

\* The cleaned form of every raw text a pass may report.
CleanedText ==
    [t \in FullTexts \cup { w.text : w \in WordTokens } |-> Cleaned(t)]

\* The tokens of resolved pass p in discovery order: its word tokens in the
\* order returned, then its full-text token.
Discovered(p) ==
    LET data == ocrLog[p].data
        n == Len(data.words)
    IN  [k \in 1..(n + 1) |->
            IF k <= n
            THEN [text |-> CleanedText[data.words[k].text],
                  confidence |-> data.words[k].confidence,
                  source |-> <<configs[p]>>]
            ELSE [text |-> CleanedText[data.text], confidence |-> 50,
                  source |-> <<configs[p], "-full">>]]

\* The tokens of the resolved passes among 1..p in discovery order.
RECURSIVE DiscoveredUpTo(_)
DiscoveredUpTo(p) ==
    IF p = 0 THEN <<>>
    ELSE IF ocrLog[p].threw THEN DiscoveredUpTo(p - 1)
    ELSE DiscoveredUpTo(p - 1) \o Discovered(p)

\* A token is collected (2 to 10 characters) and passes the two filters of
\* the ranking (at least 3 characters, not a noise-vocabulary word).
IsSurvivor(token) ==
    /\ Len(token.text) >= 3
    /\ Len(token.text) <= 10
    /\ token.text \notin filterWords

\* The pass a token comes from.
PassOf(token) == CHOOSE p \in 1..Len(configs) : token.source[1] = configs[p]

\* What the resolved passes reported: every token, cleaned, in discovery
\* order; the score of each; the survivors; the survivors no other survivor
\* outscores.
Reported ==
    LET t == DiscoveredUpTo(Len(ocrLog))
        sc == [i \in 1..Len(t) |-> Score(t[i])]
        surv == { i \in 1..Len(t) : IsSurvivor(t[i]) }
    IN  [tokens |-> t, score |-> sc, survivors |-> surv,
         best |-> { i \in surv : \A j \in surv : sc[j] <= sc[i] }]

\* What the passes answered decides the outcome of the OCR extraction: an
\* error when a pass failed, else the earliest of the best survivors when
\* that one scores above 0, else the empty string.
OcrOutcomeIs(o, r) ==
    IF SomePassThrew THEN o = "threw"
    ELSE /\ o = "returned"
         /\ Len(ocrLog) = Len(configs)
         /\ LET rep == Reported
            IN  IF \E i \in rep.survivors : rep.score[i] > 0
                THEN \E i \in rep.best :
                        /\ r = rep.tokens[i].text
                        /\ \A j \in rep.best : i <= j
                ELSE r = <<>>

\* ------------------------------------------------------------------ claims
\* C1 as stated: whenever the remote service answered with a non-empty guess
\* list, whatever the first plate string, Tesseract.recognize is not invoked.
C1_AnyGuessShortCircuits == RemoteGuessed => ocrCalls = <<>>

\* C1 (amended): when the remote service answered with a non-empty guess list
\* whose first plate string is not empty, Tesseract.recognize is never
\* invoked during the call, and the call has returned.
C1_ShortCircuit ==
    (RemoteGuessed /\ remoteResults[1].plate # <<>>) => (ocrCalls = <<>> /\ Returned)

C1_Witness ==
    /\ Returned
    /\ RemoteGuessed
    /\ remoteResults[1].plate # <<>>
    /\ ocrCalls = <<>>
    /\ fetchCalls = 1

\* Upper-casing changes the lower-case letters and nothing else.
UpperCased(out, in) ==
    /\ Len(out) = Len(in)
    /\ \A i \in 1..Len(in) :
         IF in[i] \in LowerCase
         THEN out[i] \in UpperCase /\ UpperCaseOf[in[i]] = out[i]
         ELSE out[i] = in[i]

\* C2 as stated: whenever the remote service returned at least one guess, the
\* call returns the first guess's plate string upper-cased.
C2_AnyGuessIsReturned ==
    (Done /\ RemoteGuessed) =>
        (outcome = "returned" /\ UpperCased(result, remoteResults[1].plate))

\* C2 (amended): when the remote service returned at least one guess and the
\* first guess's plate string is not empty, the call returns exactly that
\* string upper-cased: separators are kept ("abc-123" gives "ABC-123"), no
\* length or noise filter applies and no other guess is chosen.
C2_FirstGuessUpperCased ==
    (RemoteGuessed /\ remoteResults[1].plate # <<>>) =>
        /\ Returned
        /\ UpperCased(result, remoteResults[1].plate)
        /\ remoteResults[1].plate = <<"a","b","c","-","1","2","3">>
             => result = <<"A","B","C","-","1","2","3">>

C2_Witness ==
    /\ Returned
    /\ RemoteGuessed
    /\ Len(remoteResults) >= 2
    /\ remoteResults[1].plate = <<"a","b","c","-","1","2","3">>
    /\ remoteResults[2].score > remoteResults[1].score
    /\ remoteResults[2].plate # <<>>
    /\ result = <<"A","B","C","-","1","2","3">>

\* C3: with no key configured, after a failed remote call and after a remote
\* answer with zero guesses, the call ends as the OCR extraction of the same
\* passes ends; a remote failure alone never makes the call throw.
C3_FallThrough ==
    /\ plateRecognizerApiKey = "" => (remoteKind = "notcalled" /\ fetchCalls = 0)
    /\ (Done /\ (remoteKind = "notcalled" \/ RemoteFailed \/ RemoteNoGuess)) =>
          /\ ocrCalls # <<>>
          /\ OcrOutcomeIs(outcome, result)

C3_Witness ==
    /\ Returned
    /\ remoteKind = "netfail"
    /\ Len(ocrLog) = Len(configs)
    /\ result # <<>>

C7_MaxOverAllPasses ==
    (OcrReturned /\ result # <<>>) =>
        LET rep == Reported
        IN  \E i \in rep.survivors :
                /\ result = rep.tokens[i].text
                /\ \A p \in 1..Len(configs) :
                     \A j \in rep.survivors :
                        PassOf(rep.tokens[j]) = p => rep.score[j] <= rep.score[i]

C7_Witness ==
    /\ OcrReturned
    /\ LET rep == Reported
       IN  \E i \in rep.best :
             /\ result = rep.tokens[i].text
             /\ PassOf(rep.tokens[i]) = 1
             /\ \E j \in rep.survivors :
                  /\ PassOf(rep.tokens[j]) = 3
                  /\ rep.score[j] > 0
                  /\ rep.score[j] < rep.score[i]
             /\ \A j \in rep.best : PassOf(rep.tokens[j]) = 1

\* C8: the candidates are collected in discovery order (passes Auto, Single
\* Block, Single Line; within a pass the words as returned, then the full
\* text), and among the survivors attaining the maximum score the earliest
\* one is returned.
C8_EarliestOfBestWins ==
    LET rep == Reported
    IN  /\ allCandidates =
             SelectSeq(rep.tokens, LAMBDA c : Len(c.text) >= 2 /\ Len(c.text) <= 10)
        /\ (OcrReturned /\ result # <<>>) =>
             \E i \in rep.best :
                /\ result = rep.tokens[i].text
                /\ \A j \in rep.best : i <= j

C8_Witness ==
    /\ OcrReturned
    /\ LET rep == Reported
       IN  \E i \in rep.best :
             /\ result = rep.tokens[i].text
             /\ PassOf(rep.tokens[i]) = 2
             /\ \E j \in rep.best :
                  /\ i < j
                  /\ rep.tokens[j].text # rep.tokens[i].text
                  /\ rep.tokens[j].source = <<configs[2], "-full">>
             /\ \E j \in rep.best :
                  /\ PassOf(rep.tokens[j]) = 3
                  /\ rep.tokens[j].text # rep.tokens[i].text

\* C9: no candidate of fewer than 3 characters is scored or returned by the
\* OCR extraction, although candidates of 2 characters are collected.
C9_ShortNeverScored ==
    /\ \A k \in 1..Len(scored) : Len(scored[k].text) >= 3
    /\ (OcrReturned /\ result # <<>>) => Len(result) >= 3

C9_Witness ==
    /\ OcrReturned
    /\ \E i \in 1..Len(allCandidates) : Len(allCandidates[i].text) = 2
    /\ scored # <<>>

\* C10: a candidate whose text is a noise-vocabulary word is never scored and
\* never returned by the OCR extraction, whatever its confidence and source.
C10_NoiseNeverScored ==
    /\ \A k \in 1..Len(scored) : scored[k].text \notin filterWords
    /\ OcrReturned => result \notin filterWords

C10_Witness ==
    /\ OcrReturned
    /\ \E i \in 1..Len(allCandidates) :
         /\ allCandidates[i].text \in filterWords
         /\ allCandidates[i].confidence > 92
    /\ scored # <<>>
    /\ result # <<>>

\* The segmentation modes in the order the specification gives them.
ModesInOrder == <<"Auto", "Single Block", "Single Line">>

\* C11: with no key configured the remote request is never sent and never
\* answered; as soon as the call has started, the first OCR pass has.
C11_NoKeyNoRemote ==
    plateRecognizerApiKey = "" =>
        /\ fetchCalls = 0
        /\ pc # "fetch"
        /\ remoteKind = "notcalled"
        /\ remoteResults = <<>>
        /\ pc # "idle" => (ocrCalls # <<>> /\ ocrCalls[1] = ModesInOrder[1])

C11_Witness ==
    /\ plateRecognizerApiKey = ""
    /\ Done
    /\ Len(ocrLog) = 3
    /\ fetchCalls = 0

\* C12: the OCR passes are started in the order Auto, Single Block, Single
\* Line, a pass only once every earlier one has completed, and a call that
\* ends on the OCR path with no failed pass has run exactly these three.
C12_ThreePassesInOrder ==
    /\ Len(ocrCalls) <= Len(ModesInOrder)
    /\ ocrCalls = SubSeq(ModesInOrder, 1, Len(ocrCalls))
    /\ Len(ocrLog) = Len(ocrCalls) - (IF pc = "recognize" THEN 1 ELSE 0)
    /\ (Done /\ ocrCalls # <<>> /\ ~SomePassThrew) =>
          /\ ocrCalls = ModesInOrder
          /\ Len(ocrLog) = 3

C12_Witness ==
    /\ Done
    /\ ~SomePassThrew
    /\ ocrCalls = <<"Auto", "Single Block", "Single Line">>
    /\ Len(ocrLog) = 3

\* C13: in one call the remote request is sent at most once and no
\* segmentation mode is passed to the OCR engine twice, also after a failure
\* of the remote call or of a pass.
C13_NoRetry ==
    /\ fetchCalls <= 1
    /\ \A i, j \in DOMAIN ocrCalls : ocrCalls[i] = ocrCalls[j] => i = j
    /\ Len(ocrLog) <= Len(ocrCalls)

C13_Witness ==
    /\ RemoteFailed
    /\ Threw
    /\ fetchCalls = 1
    /\ Len(ocrCalls) = 2

\* The letters and digits of the specification's ^[A-Z0-9]*$.
CapitalLetters ==
    <<"A","B","C","D","E","F","G","H","I","J","K","L","M",
      "N","O","P","Q","R","S","T","U","V","W","X","Y","Z">>
SmallLetters ==
    <<"a","b","c","d","e","f","g","h","i","j","k","l","m",
      "n","o","p","q","r","s","t","u","v","w","x","y","z">>
Digits == {"0","1","2","3","4","5","6","7","8","9"}
Capitals == { CapitalLetters[i] : i \in DOMAIN CapitalLetters }
Smalls == { SmallLetters[i] : i \in DOMAIN SmallLetters }

HasLetter(text) == \E i \in DOMAIN text : text[i] \in Capitals
HasDigit(text) == \E i \in DOMAIN text : text[i] \in Digits

\* The four terms of the specification, ten times their value.
SpecConfidenceTerm(confidence) == (confidence * 300) \div 100
SpecLengthTerm(n) ==
    CASE n \in 5..7 -> 300
      [] n \in {4, 8} -> 200
      [] n \in {3, 9} -> 100
      [] OTHER -> 0
SpecMixTerm(text) ==
    CASE HasLetter(text) /\ HasDigit(text) -> 400
      [] HasLetter(text) /\ ~HasDigit(text) -> 150
      [] ~HasLetter(text) /\ HasDigit(text) -> 150
      [] OTHER -> 0
SpecPenaltyTerm(text) ==
    IF HasLetter(text) /\ ~HasDigit(text) /\ Len(text) > 4 THEN -200 ELSE 0

\* C14: the score computed for a candidate is the sum of the confidence
\* term, the length term, the character-mix term and the all-letters penalty
\* of the specification.
C14_ScoreIsSumOfFourTerms ==
    output # <<>> =>
        output[1] = SpecConfidenceTerm(input.confidence)
                    + SpecLengthTerm(Len(input.text))
                    + SpecMixTerm(input.text)
                    + SpecPenaltyTerm(input.text)

C14_Witness ==
    /\ output = <<400>>
    /\ input.text = <<"A","A","A","A","A">>
    /\ input.confidence = 50

\* The text of n letters and no digit among the texts drawn.
LettersOnly(n) == [i \in 1..n |-> "A"]

\* C15: a candidate with letters and digits scores strictly more than the
\* candidate of the same length and confidence that has letters only.
C15_MixedBeatsLettersOnly ==
    (output # <<>> /\ HasLetter(input.text) /\ HasDigit(input.text)) =>
        LET other == [text |-> LettersOnly(Len(input.text)),
                      confidence |-> input.confidence]
        IN  /\ other \in ScoreInputs
            /\ HasLetter(other.text) /\ ~HasDigit(other.text)
            /\ output[1] > Score(other)

C15_Witness ==
    /\ output # <<>>
    /\ input.text = <<"A","1","A","A">>
    /\ input.confidence = 0
    /\ output[1] = Score([text |-> <<"A","A","A","A">>, confidence |-> 0]) + 250

\* The specification's normalize: characters outside [A-Za-z0-9] dropped,
\* the others upper-cased, in order.
RECURSIVE Normalized(_)
Normalized(raw) ==
    IF raw = <<>> THEN <<>>
    ELSE LET c == Head(raw)
             rest == Normalized(Tail(raw))
         IN  IF c \in Capitals \cup Digits THEN <<c>> \o rest
             ELSE IF c \in Smalls
             THEN <<CapitalLetters[CHOOSE i \in DOMAIN SmallLetters :
                                      SmallLetters[i] = c]>> \o rest
             ELSE rest

\* C17: the cleaned text of a word and the cleaned full text are both the
\* normalization of the raw text: only characters A-Z and 0-9, the raw
\* letters and digits upper-cased in order, empty for an empty raw text.
C17_CleanedIsNormalized ==
    output # <<>> =>
        /\ output[1].of \in {"word", "full"}
        /\ \A i \in DOMAIN output[1].text : output[1].text[i] \in Capitals \cup Digits
        /\ output[1].text = Normalized(input)
        /\ input = <<>> => output[1].text = <<>>

C17_Witness ==
    /\ output # <<>>
    /\ output[1].of = "full"
    /\ input = <<"a", "é", "7">>
    /\ output[1].text = <<"A", "7">>

\* C18: when exactly one reported token survives the two filters and it has
\* both a letter and a digit, the OCR extraction returns its cleaned text.
C18_SingleMixedSurvivorIsReturned ==
    OcrReturned =>
        LET rep == Reported
        IN  \A i \in rep.survivors :
                (/\ rep.survivors = {i}
                 /\ HasLetter(rep.tokens[i].text)
                 /\ HasDigit(rep.tokens[i].text)) => result = rep.tokens[i].text

C18_Witness ==
    /\ OcrReturned
    /\ Cardinality(Reported.survivors) = 1
    /\ ocrLog[1].data.words =
          <<[text |-> <<"a","b","c","-","1","2","3">>, confidence |-> 92]>>
    /\ ocrLog[2].data.words =
          <<[text |-> <<"C","a","l","i","f","o","r","n","i","a">>, confidence |-> 95]>>
    /\ \A p \in 1..3 : ocrLog[p].data.text = <<"A","1","\n">>
    /\ result = <<"A","B","C","1","2","3">>

\* A token is a noise-vocabulary word or has fewer than 3 characters once
\* cleaned.
NoiseOrShort(token) == token.text \in filterWords \/ Len(token.text) < 3

\* C20: when no pass failed and every token of every pass is a
\* noise-vocabulary word or shorter than 3 characters, the OCR extraction
\* returns the empty string and does not throw.
C20_OnlyNoiseGivesEmpty ==
    (Done /\ ocrCalls # <<>> /\ ~SomePassThrew) =>
        LET tokens == Reported.tokens
        IN  (\A i \in DOMAIN tokens : NoiseOrShort(tokens[i])) =>
                /\ outcome = "returned"
                /\ result = <<>>

C20_Witness ==
    /\ OcrReturned
    /\ Len(ocrLog) = 3
    /\ result = <<>>
    /\ LET tokens == Reported.tokens
       IN  /\ \A i \in DOMAIN tokens : NoiseOrShort(tokens[i])
           /\ \E i \in DOMAIN tokens :
                 tokens[i].text \in filterWords /\ tokens[i].confidence = 95
           /\ \E i \in DOMAIN tokens : Len(tokens[i].text) = 2

\* Two texts have the same character-class mix.
SameMix(a, b) == HasLetter(a) = HasLetter(b) /\ HasDigit(a) = HasDigit(b)

\* Candidate i of the ranked list outranks candidate j by confidence alone:
\* both survive the filters, with the same length and mix, i more confident.
OutranksByConfidence(i, j) ==
    /\ IsSurvivor(input[i])
    /\ IsSurvivor(input[j])
    /\ Len(input[i].text) = Len(input[j].text)
    /\ SameMix(input[i].text, input[j].text)
    /\ input[i].confidence > input[j].confidence

\* C19: of two survivors of the same length and mix, the more confident has
\* the strictly higher score, the other one is never the text returned, and
\* when no third text survives and that score is above 0 the more confident
\* one is returned, whichever comes first in the list.
C19_HigherConfidenceWins ==
    output # <<>> =>
        \A i, j \in DOMAIN input :
            OutranksByConfidence(i, j) =>
                /\ Score(input[i]) > Score(input[j])
                /\ input[j].text # input[i].text =>
                      output[1].bestCandidate # input[j].text
                /\ (/\ Score(input[i]) > 0
                    /\ \A k \in DOMAIN input :
                          IsSurvivor(input[k]) =>
                              input[k].text \in {input[i].text, input[j].text})
                      => output[1].bestCandidate = input[i].text

C19_Witness ==
    /\ output # <<>>
    /\ Len(input) = 2
    /\ input[1].text = <<"X","Y","1","Z","3","4","5">>
    /\ input[1].confidence = 60
    /\ input[1].source = <<"Auto">>
    /\ input[2].text = <<"X","Y","1","2","3","4","5">>
    /\ input[2].confidence = 80
    /\ input[2].source = <<"Single Line">>
    /\ output[1].bestCandidate = <<"X","Y","1","2","3","4","5">>

InCandidateWindow(text) == Len(text) \in 2..10

\* The candidate the specification builds of a word: its normalized text,
\* its own confidence, 0 when none is reported.
SpecWordToken(word, mode) ==
    [text |-> Normalized(word.text),
     confidence |-> IF "confidence" \in DOMAIN word THEN word.confidence ELSE 0,
     source |-> <<mode>>]

\* C22: the candidates of a pass are its words in order, each with its own
\* confidence (0 when missing), those outside the window left out, followed
\* by exactly one candidate of the full transcription with confidence 50 and
\* source "<mode>-full", present only when its normalized length is in
\* [2,10].
C22_OneFullTextCandidateAtFifty ==
    output # <<>> =>
        LET cands == output[1].candidates
            fulls == SelectSeq(cands, LAMBDA c : Len(c.source) = 2)
            words == SelectSeq(cands, LAMBDA c : Len(c.source) = 1)
            kept == SelectSeq(input.words,
                              LAMBDA w : InCandidateWindow(Normalized(w.text)))
        IN  /\ Len(fulls) = IF InCandidateWindow(Normalized(input.text)) THEN 1 ELSE 0
            /\ \A i \in DOMAIN fulls :
                  /\ fulls[i] = [text |-> Normalized(input.text), confidence |-> 50,
                                 source |-> <<"Auto", "-full">>]
                  /\ cands[Len(cands)] = fulls[i]
            /\ words = [k \in DOMAIN kept |-> SpecWordToken(kept[k], "Auto")]
            /\ cands = words \o fulls

C22_Witness ==
    /\ output # <<>>
    /\ input.text = <<"T","H","E"," ","S","T","A","T","E">>
    /\ input.words = << [text |-> <<"a","b","-","1","2">>],
                        [text |-> <<"T","H","E">>, confidence |-> 96] >>
    /\ output[1].candidates =
          << [text |-> <<"A","B","1","2">>, confidence |-> 0, source |-> <<"Auto">>],
             [text |-> <<"T","H","E">>, confidence |-> 96, source |-> <<"Auto">>],
             [text |-> <<"T","H","E","S","T","A","T","E">>, confidence |-> 50,
              source |-> <<"Auto", "-full">>] >>

\* A text over A-Z and 0-9 only.
IsPlateText(text) == \A i \in DOMAIN text : text[i] \in Capitals \cup Digits

\* The raw texts of an answer: its words' texts and its full transcription.
RawTextsOf(data) == { data.words[k].text : k \in DOMAIN data.words } \cup {data.text}

\* C23: every collected candidate has a text over A-Z and 0-9 of 2 to 10
\* characters; a non-empty result is over A-Z and 0-9 and has 3 to 10
\* characters; a token of more than 10 normalized characters is neither
\* collected nor returned.
C23_CandidateWindow ==
    output # <<>> =>
        /\ \A i \in DOMAIN output[1].candidates :
              /\ IsPlateText(output[1].candidates[i].text)
              /\ Len(output[1].candidates[i].text) \in 2..10
        /\ output[1].result # <<>> =>
              /\ IsPlateText(output[1].result)
              /\ Len(output[1].result) \in 3..10
        /\ \A raw \in RawTextsOf(input) :
              Len(Normalized(raw)) > 10 =>
                 /\ output[1].result # Normalized(raw)
                 /\ \A i \in DOMAIN output[1].candidates :
                       output[1].candidates[i].text # Normalized(raw)

C23_Witness ==
    /\ output # <<>>
    /\ input.text = <<"A","B","C","D","E"," ","1","2","3","4","5","6">>
    /\ input.words =
          << [text |-> <<"A","B","C","D","E","1","2","3","4","5","6">>, confidence |-> 99],
             [text |-> <<"a","b","-","1","2">>] >>
    /\ Len(output[1].candidates) = 1
    /\ output[1].result = <<"A","B","1","2">>

\* The messages that ask for manual entry: "Could not extract plate number.
\* Please enter it manually." and "OCR failed. Please enter the plate number
\* manually."
ManualEntryMessages == {"could not extract", "failed"}

\* C24: a step that ends an extraction writes the field exactly when the
\* extraction returned a non-empty string; otherwise the field keeps its
\* value and the message asks for manual entry. No other step writes the
\* field.
C24_FieldWrittenOnlyForNonEmpty ==
    [][/\ \A i \in DOMAIN uploads :
             (uploads[i].pc = "extracting" /\ uploads'[i].pc = "done") =>
                 IF uploads'[i].outcome = "returned" /\ uploads'[i].result # <<>>
                 THEN plateNumberInput' = uploads'[i].result
                 ELSE /\ plateNumberInput' = plateNumberInput
                      /\ message' \in ManualEntryMessages
       /\ plateNumberInput' # plateNumberInput =>
             \E i \in DOMAIN uploads :
                 uploads[i].pc = "extracting" /\ uploads'[i].pc = "done"]_vars

C24_Witness ==
    /\ Len(uploads) = 2
    /\ uploads[1].outcome = "returned"
    /\ uploads[1].result = <<>>
    /\ uploads[2].outcome = "threw"
    /\ plateNumberInput = <<"O","L","D","1">>
    /\ message = "failed"

\* Every change event selected a file and every handler has finished.
AllUploadsDone ==
    \A i \in DOMAIN uploads : uploads[i].pc = "done" /\ uploads[i].outcome # "nofile"

\* C30 as stated: once two or more overlapping extractions have all
\* completed, the field holds the text returned for the image selected
\* last (when that text is non-empty), whatever the order of completion.
C30_FieldHoldsLatestResult ==
    (Len(uploads) >= 2 /\ AllUploadsDone) =>
        LET last == uploads[Len(uploads)]
        IN  (last.outcome = "returned" /\ last.result # <<>>) =>
                plateNumberInput = last.result

\* The score of the specification for a candidate, ten times its value.
SpecScoreOf(candidate) ==
    SpecConfidenceTerm(candidate.confidence) + SpecLengthTerm(Len(candidate.text))
        + SpecMixTerm(candidate.text) + SpecPenaltyTerm(candidate.text)

\* C25: a non-empty result of the ranking is the text of a survivor whose
\* score is above 0 and the best score kept is above 0; when every survivor
\* scores 0 or less the result is the empty string.
C25_ReturnedScoresAboveZero ==
    output # <<>> =>
        LET best == output[1].bestCandidate
        IN  /\ best # <<>> =>
                  /\ output[1].bestScore > 0
                  /\ \E i \in DOMAIN input :
                        /\ input[i].text = best
                        /\ IsSurvivor(input[i])
                        /\ SpecScoreOf(input[i]) = output[1].bestScore
            /\ (\A i \in DOMAIN input :
                    IsSurvivor(input[i]) => SpecScoreOf(input[i]) <= 0) => best = <<>>

C25_Witness ==
    /\ output # <<>>
    /\ Len(input) = 2
    /\ input[1].text = <<"A","B","C","D","E","F","G","H","I","J">>
    /\ input[1].confidence = 10
    /\ input[2].text = <<"K","L","M","N","O","P","Q","R","S","T">>
    /\ SpecScoreOf(input[1]) = -20
    /\ output[1].bestCandidate = <<>>
    /\ Len(output[1].scored) = 2

\* C26: a call that returns the empty string has invoked the three OCR
\* passes and seen all of them complete; a call that returns without any
\* OCR pass returns a non-empty remote plate.
C26_EmptyComesFromOcr ==
    /\ (Returned /\ result = <<>>) =>
          /\ ocrCalls = ModesInOrder
          /\ Len(ocrLog) = 3
          /\ \A p \in 1..3 : ~ocrLog[p].threw
    /\ (Returned /\ ocrCalls = <<>>) =>
          /\ result # <<>>
          /\ remoteKind = "results"
          /\ remoteResults # <<>>

C26_Witness ==
    /\ Returned
    /\ result = <<>>
    /\ plateRecognizerApiKey = "KEY"
    /\ remoteKind = "results"
    /\ remoteResults # <<>>
    /\ remoteResults[1].plate = <<>>
    /\ Len(ocrLog) = 3

\* A raw text whose normalized form is a noise-vocabulary word or shorter
\* than 3 characters.
RawNoiseOrShort(raw) == Normalized(raw) \in filterWords \/ Len(Normalized(raw)) < 3

\* C27: the full text "THE STATE", made of two noise-vocabulary words, is
\* collected as THESTATE, is scored rather than filtered, and is the result
\* when every word of the pass is a noise-vocabulary word or shorter than 3
\* characters.
C27_ConcatenatedNoiseIsNotFiltered ==
    (output # <<>> /\ input.text = <<"T","H","E"," ","S","T","A","T","E">>) =>
        LET whole == [text |-> <<"T","H","E","S","T","A","T","E">>,
                      confidence |-> 50, source |-> <<"Auto", "-full">>]
        IN  /\ <<"T","H","E">> \in filterWords
            /\ <<"S","T","A","T","E">> \in filterWords
            /\ \E i \in DOMAIN output[1].scored : output[1].scored[i] = whole
            /\ (\A k \in DOMAIN input.words : RawNoiseOrShort(input.words[k].text))
                  => output[1].result = whole.text

C27_Witness ==
    /\ output # <<>>
    /\ input.text = <<"T","H","E"," ","S","T","A","T","E">>
    /\ input.words = << [text |-> <<"T","H","E">>, confidence |-> 96],
                        [text |-> <<"S","T","A","T","E">>, confidence |-> 91] >>
    /\ Len(output[1].candidates) = 3
    /\ Len(output[1].scored) = 1
    /\ output[1].result = <<"T","H","E","S","T","A","T","E">>

\* C28: a call that has started ends, returning a string or throwing, and
\* on the way sends at most one remote request and starts at most three OCR
\* passes.
C28_Terminates ==
    /\ [](fetchCalls <= 1 /\ Len(ocrCalls) <= 3)
    /\ [](Done => outcome \in {"returned", "threw"})
    /\ (pc # "idle") ~> Done

C28_Witness ==
    /\ Done
    /\ outcome = "returned"
    /\ fetchCalls = 1
    /\ Len(ocrCalls) = 3
    /\ Len(ocrLog) = 3

\* C29 as stated: once setApiKey has been called, the key in memory is the
\* argument of the latest call, whatever the initial load does afterwards.
C29_SetKeyStays ==
    setCalls # <<>> => plateRecognizerApiKey = setCalls[Len(setCalls)]

====
